---- MODULE Spec2Model ----
(***************************************************************************)
(* A model of simple_history/models.py: the HistoricalRecords tracker, its *)
(* registration (finalize), its change-capture hooks (post_save,           *)
(* post_delete, m2m_changed), the snapshot construction                    *)
(* (create_historical_record), the acting-user resolution                  *)
(* (get_history_user) and the reconstruction accessor (get_instance).      *)
(*                                                                         *)
(* The tracked model is Poll (fields id, f, x), with a many-to-many        *)
(* relationship "places" to Place through the join model PollPlace, and    *)
(* the subclasses SubPoll and SubPoll2.  Django's own parts (Model.save,   *)
(* Model.delete, the signal dispatcher, the related manager's add, remove  *)
(* and clear, the class creation of ModelBase) are modelled as far as the  *)
(* hooks observe them.                                                     *)
(***************************************************************************)
EXTENDS Integers, Sequences, FiniteSets, TLC

\* ------------------------------------------------------------------ bounds
MaxHistory == 3      \* rows a history table may hold before the model stops writing
MaxClock == 1        \* readings of now() range over 0..MaxClock

\* ---------------------------------------------------------------- universe
Types == {"Poll", "SubPoll", "SubPoll2", "PollPlace", "Place"}
Trackers == {"history", "audit", "place_history", "registered"}
Pks == {1, 2}                \* primary keys of Poll instances
Targets == {1, 2, 3}         \* primary keys of Place instances
Vals == {0, 1}               \* values of the data fields f and x
Users == {"u1", "u2"}        \* authenticated users
Threads == {"t1", "t2"}
Null == "null"               \* Python's None where a user is expected
Unset == "unset"             \* an attribute the instance does not have
NoCls == "nocls"             \* a tracker without the cls attribute
NoRequest == "norequest"     \* thread.request is not set
NoPk == 0                    \* the primary key of an instance never saved: None
ModelFields == <<"id", "f", "x">>

Range(s) == {s[i] : i \in 1..Len(s)}

VARIABLES
    \* declaration-time configuration (fixed by Init)
    inherit,              \* HistoricalRecords(inherit=...) of the tracker declared on Poll
    excluded_fields,      \* HistoricalRecords(excluded_fields=...) of every tracker
    second_tracker,       \* Poll declares a second tracker, "audit"
    place_tracked,        \* Place declares a tracker, "place_history"
    \* registration state
    created_classes,      \* model classes whose class statement has run
    connected,            \* receivers of class_prepared, in connection order
    manager_attr,         \* _meta.simple_history_manager_attribute per type ("" = absent)
    class_attr,           \* per type, the class attributes "history" and "audit"
    history_models,       \* per type, the history models created for it
    receivers,            \* per type, the trackers whose hooks are connected to it
    extra_methods,        \* per type, the tracker that save_as_draft is bound to
    pending_registration, \* module-level list of join types awaited
    registered_models,    \* module-level dict, as the set of its values
    \* storage
    db,                   \* rows of Poll
    joins,                \* rows of PollPlace, as [poll |-> pk, place |-> pk]
    history,              \* rows of the history tables of Poll, in insertion order
    m2m_history,          \* rows of the history table of PollPlace, in insertion order
    \* process state
    request,              \* HistoricalRecords.thread.request, per thread
    skip,                 \* per in-memory instance, hasattr(skip_history_when_saving)
    now,                  \* the clock django.utils.timezone.now reads
    \* environment
    atomic,               \* the caller runs save() inside transaction.atomic()
    storage_down,         \* INSERTs into the history tables fail with a DatabaseError
    in_flight,            \* the instances that a save() has persisted and whose
                          \* post_save is yet to be sent, with the saving thread
    \* observation
    unit,                 \* per thread, the unit of work in progress and what it bound
    last,                 \* the operation that made the last step, and its outcome
    ordinary_ops          \* the operations made, while all were ordinary ones; else -1

cfgvars == <<inherit, excluded_fields, second_tracker, place_tracked>>
regvars == <<created_classes, connected, manager_attr, class_attr, history_models,
             receivers, extra_methods, pending_registration, registered_models>>
dbvars == <<db, joins, history, m2m_history>>
procvars == <<request, skip, now, unit>>
envvars == <<atomic, storage_down, in_flight>>
obsvars == <<last, ordinary_ops>>
vars == <<cfgvars, regvars, dbvars, procvars, envvars, obsvars>>

\* ------------------------------------------------------------ declarations
\* self.cls, set by contribute_to_class; register() never sets it.
cls(h) ==
    IF h \in {"history", "audit"} THEN "Poll"
    ELSE IF h = "place_history" THEN "Place" ELSE NoCls

\* self.manager_name: the attribute name of the declaration, 'history' in register().
manager_name(h) == IF h = "audit" THEN "audit" ELSE "history"

\* self.inherit
inherits(h) == h = "history" /\ inherit

\* self.excluded_fields ([] when the tracker comes from register())
excluded(h) == IF h = "registered" THEN {} ELSE excluded_fields

\* self.m2m_fields
m2m_fields(h) == IF h = "history" THEN <<"places">> ELSE << >>

\* field.rel.through of a many-to-many field
through(field_name) == "PollPlace"

\* the trackers a class statement declares, in order
declared(S) ==
    IF S = "Poll" THEN (IF second_tracker THEN <<"history", "audit">> ELSE <<"history">>)
    ELSE IF S = "Place" /\ place_tracked THEN <<"place_history">>
    ELSE << >>

\* issubclass(S, T)
issubclass(S, T) == S = T \/ (S \in {"SubPoll", "SubPoll2"} /\ T = "Poll")

\* ------------------------------------------------------------ registration
\* The registration state as one value, so that finalize and the calls it
\* makes can be composed.
RegState ==
    [created_classes |-> created_classes, connected |-> connected,
     extra_methods |-> extra_methods,
     manager_attr |-> manager_attr, class_attr |-> class_attr,
     history_models |-> history_models, receivers |-> receivers,
     pending_registration |-> pending_registration,
     registered_models |-> registered_models, raised |-> "none"]

\* list.remove(key): drops the first occurrence only
ListRemove(s, key) ==
    LET i == CHOOSE j \in 1..Len(s) : s[j] = key /\ \A k \in 1..(j - 1) : s[k] # key
    IN SubSeq(s, 1, i - 1) \o SubSeq(s, i + 1, Len(s))

RECURSIVE finalize(_, _, _)
RECURSIVE register(_, _)

\* _setup_history (lines 85-88)
setup_history(S, R) ==
    IF \E a \in DOMAIN R.class_attr[S] : R.class_attr[S][a] = "HistoricalRecords"
    THEN R
    ELSE register(S, [R EXCEPT !.class_attr[S]["history"] = "HistoricalRecords"])

\* one iteration of the loop of setup_m2m_history (lines 69-83)
setup_m2m_field(S, R, field_name) ==
    IF R.raised # "none" THEN R
    ELSE IF through(field_name) \notin R.created_classes
    THEN [R EXCEPT !.pending_registration = Append(@, through(field_name))]
    ELSE setup_history(through(field_name), R)

RECURSIVE setup_m2m_loop(_, _, _)
setup_m2m_loop(S, R, fields) ==
    IF fields = << >> THEN R
    ELSE setup_m2m_loop(S, setup_m2m_field(S, R, Head(fields)), Tail(fields))

\* setup_m2m_history (lines 63-83)
setup_m2m_history(h, S, R) == setup_m2m_loop(S, R, m2m_fields(h))

\* finalize without its multiple-registration guard
never_registered(S, R) == FALSE

\* the multiple-registration guard of finalize (line 154)
already_registered(S, R) == R.manager_attr[S] # ""

\* the part of finalize that installs the tracking (lines 162-178)
finalize_tail(h, S, R) ==
    LET R2 == setup_m2m_history(h, S, R)
    IN IF R2.raised # "none" THEN R2
       ELSE [R2 EXCEPT !.history_models[S] = Append(@, h),
                       !.registered_models = @ \cup {S},
                       !.receivers[S] = Append(@, h),
                       !.class_attr[S][manager_name(h)] = "HistoryDescriptor",
                       !.manager_attr[S] = manager_name(h)]

\* finalize (lines 139-178)
finalize(h, S, R) ==
    LET R1 == IF S \in Range(R.pending_registration)
              THEN setup_history(S, [R EXCEPT !.pending_registration = ListRemove(@, S)])
              ELSE R
    IN IF R1.raised # "none" THEN R1
       ELSE IF cls(h) # NoCls /\ cls(h) # S /\ ~(inherits(h) /\ issubclass(S, cls(h)))
       THEN R1
       ELSE IF already_registered(S, R1)
       THEN [R1 EXCEPT !.raised = "MultipleRegistrationsError"]
       ELSE finalize_tail(h, S, R1)

\* simple_history.register(model): a fresh tracker, never given a cls, whose
\* add_extra_methods and finalize are called at once
register(S, R) == finalize("registered", S, [R EXCEPT !.extra_methods[S] = "registered"])

\* Signal.send of class_prepared: the receivers in connection order; an exception
\* of one ends the dispatch
RECURSIVE send_class_prepared(_, _, _)
send_class_prepared(hs, S, R) ==
    IF hs = << >> \/ R.raised # "none" THEN R
    ELSE send_class_prepared(Tail(hs), S, finalize(Head(hs), S, R))

\* ---------------------------------------------------------------- snapshot
\* An in-memory instance: its class, its field values, and the transient
\* attributes the hooks read.
Instance(model, fields, user_attr, date_attr, flag) ==
    [model |-> model, fields |-> fields, history_user_attr |-> user_attr,
     history_date_attr |-> date_attr, skip_history_when_saving |-> flag]

\* a Poll instance with no transient attribute but, possibly, the skip flag
PollInstance(pk, f, x, user_attr, flag) ==
    Instance("Poll", [id |-> pk, f |-> f, x |-> x], user_attr, -1, flag)

\* a PollPlace instance as a query returns it: no transient attribute at all
PollPlaceInstance(j) == Instance("PollPlace", j, Unset, -1, FALSE)

\* the storage state the hooks write, as one value
StoreState ==
    [history |-> history, m2m_history |-> m2m_history, raised |-> "none"]

\* the request read from an attribute that all threads share
thread_request_shared(t) ==
    IF \E u \in Threads : request[u] # NoRequest
    THEN request[CHOOSE u \in Threads : request[u] # NoRequest]
    ELSE NoRequest

\* self.thread.request (line 372): thread is a threading.local
thread_request(t) == request[t]

\* request.user.is_authenticated()
is_authenticated(user) == user \in Users

\* the fallback of get_history_user could also let the AttributeError escape
ambient_user_unguarded(t) ==
    IF thread_request(t) = NoRequest THEN "AttributeError"
    ELSE IF is_authenticated(thread_request(t)) THEN thread_request(t) ELSE Null

\* the inner try of get_history_user (lines 371-376)
ambient_user(t) ==
    IF thread_request(t) = NoRequest THEN Null
    ELSE IF is_authenticated(thread_request(t)) THEN thread_request(t) ELSE Null

\* get_history_user (lines 366-376)
get_history_user(t, instance) ==
    IF instance.history_user_attr # Unset THEN instance.history_user_attr
    ELSE ambient_user(t)

\* fields_included without the test of the excluded list
fields_all(h, model_fields) == model_fields

\* fields_included (lines 215-220), as the set of the names kept
fields_included(h, model_fields) == {fld \in model_fields : fld \notin excluded(h)}

\* the rows of the history table that tracker h writes for a model
table(h, model, St) ==
    IF model = "Poll" THEN SelectSeq(St.history, LAMBDA r : r.tracker = h)
    ELSE SelectSeq(St.m2m_history, LAMBDA r : r.tracker = h)

\* the row written over the table's latest row instead of added to the table
manager_update_or_create(h, model, St, history_date, history_type, history_user, attrs) ==
    LET row == [history_id |-> Len(table(h, model, St)) + 1,
                history_date |-> history_date, history_type |-> history_type,
                history_user |-> history_user, tracker |-> h, attrs |-> attrs]
        put(H) == IF H = << >> THEN <<row>> ELSE [H EXCEPT ![Len(H)] = row]
    IN IF model = "Poll" THEN [St EXCEPT !.history = put(@)]
       ELSE [St EXCEPT !.m2m_history = put(@)]

\* the copy of the primary key in the history model: transform_field (lines
\* 379-399) turns the AutoField into an IntegerField and leaves it NOT NULL
violates_not_null(attrs) == "id" \in DOMAIN attrs /\ attrs["id"] = NoPk

\* manager.create (lines 362-364): history_id is the table's AutoField; the INSERT
\* fails when the storage fails and when a NOT NULL column is given None
manager_create(h, model, St, history_date, history_type, history_user, attrs) ==
    LET row == [history_id |-> Len(table(h, model, St)) + 1,
                history_date |-> history_date, history_type |-> history_type,
                history_user |-> history_user, tracker |-> h, attrs |-> attrs]
    IN IF storage_down THEN [St EXCEPT !.raised = "DatabaseError"]
       ELSE IF violates_not_null(attrs) THEN [St EXCEPT !.raised = "IntegrityError"]
       ELSE IF model = "Poll" THEN [St EXCEPT !.history = Append(@, row)]
       ELSE [St EXCEPT !.m2m_history = Append(@, row)]

\* a field's value re-read from the stored row, where there is one
field_value_stored(instance, fld) ==
    IF instance.model = "Poll" /\ \E r \in db : r.id = instance.fields.id
    THEN (CHOOSE r \in db : r.id = instance.fields.id)[fld]
    ELSE instance.fields[fld]

\* getattr(instance, field.attname) (line 361): the value the instance holds
field_value(instance, fld) == instance.fields[fld]

\* create_historical_record (lines 354-364)
create_historical_record(h, t, instance, history_type, St) ==
    LET history_date == IF instance.history_date_attr # -1
                        THEN instance.history_date_attr ELSE now
        history_user == get_history_user(t, instance)
    IN IF history_user = "AttributeError" THEN [St EXCEPT !.raised = "AttributeError"]
       ELSE IF class_attr[instance.model][manager_name(h)] # "HistoryDescriptor"
       THEN [St EXCEPT !.raised = "AttributeError"]
       ELSE manager_create(h, instance.model, St, history_date, history_type, history_user,
                           [fld \in fields_included(h, DOMAIN instance.fields)
                                |-> field_value(instance, fld)])

\* the early return of post_save without its test of `created`
skips_history_any(instance, created) == instance.skip_history_when_saving

\* the early return of post_save (lines 346-347)
skips_history(instance, created) == ~created /\ instance.skip_history_when_saving

\* post_save without its test of `raw`
records_history_always(raw) == TRUE

\* the raw test of post_save (line 348)
records_history(raw) == ~raw

\* post_save recording insertions only
post_save_created_only(h, t, instance, created, raw, St) ==
    IF created /\ ~raw THEN create_historical_record(h, t, instance, "+", St) ELSE St

\* post_save (lines 345-349)
post_save(h, t, instance, created, raw, St) ==
    IF skips_history(instance, created) THEN St
    ELSE IF records_history(raw)
    THEN create_historical_record(h, t, instance, IF created THEN "+" ELSE "~", St)
    ELSE St

\* post_delete (lines 351-352)
post_delete(h, t, instance, St) == create_historical_record(h, t, instance, "-", St)

\* Signal.send of post_save to the receivers connected for the instance's class
RECURSIVE send_post_save(_, _, _, _, _, _)
send_post_save(hs, t, instance, created, raw, St) ==
    IF hs = << >> \/ St.raised # "none" THEN St
    ELSE send_post_save(Tail(hs), t, instance, created, raw,
                        post_save(Head(hs), t, instance, created, raw, St))

\* Signal.send of post_delete
RECURSIVE send_post_delete(_, _, _, _)
send_post_delete(hs, t, instance, St) ==
    IF hs = << >> \/ St.raised # "none" THEN St
    ELSE send_post_delete(Tail(hs), t, instance, post_delete(Head(hs), t, instance, St))

\* an ordering by '-history_date' alone
precedes_by_date(a, b) == a.history_date > b.history_date

\* Meta.ordering = ('-history_date', '-history_id') (line 334): row a is retrieved
\* before row b
precedes(a, b) ==
    \/ a.history_date > b.history_date
    \/ a.history_date = b.history_date /\ a.history_id > b.history_id

\* get_instance without its query of the live row
get_instance_snapshot_only(row) == [raised |-> "none", fields |-> row.attrs]

\* get_instance (lines 290-304): the snapshot, then the excluded fields from the
\* live row.  The result is the exception raised, if any, and the field values of
\* the instance built.
get_instance(row) ==
    LET attrs == row.attrs
        live == {r \in db : r.id = attrs.id}
    IN IF excluded(row.tracker) # {}
       THEN IF live = {} THEN [raised |-> "DoesNotExist", fields |-> attrs]
            ELSE LET values == CHOOSE r \in live : TRUE
                 IN [raised |-> "none",
                     fields |-> [fld \in DOMAIN attrs \cup excluded(row.tracker) |->
                                    IF fld \in excluded(row.tracker) THEN values[fld]
                                    ELSE attrs[fld]]]
       ELSE [raised |-> "none", fields |-> attrs]

\* ModelBase.__new__ for class S: contribute_to_class of the trackers it declares
\* (lines 56-61), then class_prepared
class_created(S, R) ==
    LET hs == declared(S)
        R1 == [R EXCEPT !.created_classes = @ \cup {S},
                        !.connected = @ \o hs,
                        !.extra_methods[S] = IF hs = << >> THEN @ ELSE hs[Len(hs)]]
    IN send_class_prepared(R1.connected, S, R1)

\* the class statements may run in any order that defines a class after its base
may_create(S, R) ==
    /\ S \notin R.created_classes
    /\ S \in {"SubPoll", "SubPoll2"} => "Poll" \in R.created_classes

\* the tracker whose add_extra_methods defined the save_as_draft an instance finds
draft_tracker(S) ==
    IF extra_methods[S] # "none" THEN extra_methods[S]
    ELSE IF S \in {"SubPoll", "SubPoll2"} THEN extra_methods["Poll"] ELSE "none"

\* nothing declared yet
EmptyReg ==
    [created_classes |-> {}, connected |-> << >>,
     extra_methods |-> [S \in Types |-> "none"],
     manager_attr |-> [S \in Types |-> ""],
     class_attr |-> [S \in Types |-> [a \in {"history", "audit"} |-> "absent"]],
     history_models |-> [S \in Types |-> << >>],
     receivers |-> [S \in Types |-> << >>],
     pending_registration |-> << >>, registered_models |-> {}, raised |-> "none"]

RECURSIVE load_models(_, _)
load_models(order, R) ==
    IF order = << >> THEN R ELSE load_models(Tail(order), class_created(Head(order), R))

\* the application's models module as it is usually written: the join model is
\* defined after the model whose relationship names it by a string
Loaded == load_models(<<"Place", "Poll", "PollPlace", "SubPoll", "SubPoll2">>, EmptyReg)

SetReg(R) ==
    /\ created_classes' = R.created_classes
    /\ connected' = R.connected
    /\ extra_methods' = R.extra_methods
    /\ manager_attr' = R.manager_attr
    /\ class_attr' = R.class_attr
    /\ history_models' = R.history_models
    /\ receivers' = R.receivers
    /\ pending_registration' = R.pending_registration
    /\ registered_models' = R.registered_models

SetStore(St) ==
    /\ history' = St.history
    /\ m2m_history' = St.m2m_history

\* what `last` records of a step: the operation, whether it inserted its row,
\* whether the instance carried the skip flag, and the exception it ended with
Op(op, created, flag, raised) ==
    [op |-> op, created |-> created, flag |-> flag, raised |-> raised]

\* A step is observed: `last` describes it, and ordinary_ops counts it if it is an
\* ordinary save() or delete() (not raw, no skip flag, no exception) and every
\* write before it was one too.  Reads and the middleware leave the count alone.
Observe(op, created, flag, raised) ==
    /\ last' = Op(op, created, flag, raised)
    /\ ordinary_ops' =
          IF op \in {"get_instance", "tick", "process_request", "process_response"}
          THEN ordinary_ops
          ELSE IF op \in {"save", "delete"} /\ ~flag /\ raised = "none" /\ ordinary_ops # -1
          THEN ordinary_ops + 1
          ELSE -1

\* --------------------------------------------------------------- operations
\* a class statement of the models module runs
create_class(S) ==
    /\ may_create(S, RegState)
    /\ LET R == class_created(S, RegState)
       IN /\ SetReg(R)
          /\ Observe("create_class", FALSE, FALSE, R.raised)
    /\ UNCHANGED <<cfgvars, envvars, dbvars, procvars>>

\* the application calls simple_history.register on a class
register_call(S) ==
    /\ S \in created_classes
    /\ LET R == register(S, RegState)
       IN /\ SetReg(R)
          /\ Observe("register", FALSE, FALSE, R.raised)
    /\ UNCHANGED <<cfgvars, envvars, dbvars, procvars>>

\* a row of Poll with this primary key is stored
persisted_poll(pk) == \E r \in db : r.id = pk

\* what an exception leaves of the writes made inside the caller's
\* transaction.atomic(): nothing; without one, every statement has been committed
\* as it was made
committed(St, before, after) == IF St.raised # "none" /\ atomic THEN before ELSE after

\* Model.save_base: INSERT or UPDATE by the primary key, then post_save
save_base(op, t, instance, raw) ==
    LET pk == instance.fields.id
        created == ~\E r \in db : r.id = pk
        St == send_post_save(receivers[instance.model], t, instance, created, raw,
                             StoreState)
    IN /\ db' = committed(St, db, {r \in db : r.id # pk} \cup {instance.fields})
       /\ SetStore(committed(St, StoreState, St))
       /\ Observe(op, created, instance.skip_history_when_saving, St.raised)
       /\ UNCHANGED <<joins, request, now, unit>>

\* instance.save()
save(t, pk, f, x, user_attr) ==
    /\ "Poll" \in created_classes
    /\ Len(history) < MaxHistory
    /\ save_base("save", t, PollInstance(pk, f, x, user_attr, skip[pk]), FALSE)
    /\ UNCHANGED <<cfgvars, envvars, regvars, skip>>

\* the flag kept on the instance after the call
flag_kept(flag) == flag

\* instance.save() as far as its INSERT or UPDATE: the row is stored and committed,
\* post_save is yet to be sent, and other writers run meanwhile
save_persists(t, pk, f, x) ==
    /\ "Poll" \in created_classes
    /\ Len(history) < MaxHistory
    /\ in_flight = {}
    /\ db' = {r \in db : r.id # pk} \cup {[id |-> pk, f |-> f, x |-> x]}
    /\ in_flight' = {[thread |-> t, created |-> ~persisted_poll(pk),
                      instance |-> PollInstance(pk, f, x, Unset, skip[pk])]}
    /\ Observe("save_persists", ~persisted_poll(pk), skip[pk], "none")
    /\ UNCHANGED <<cfgvars, atomic, storage_down, regvars, joins, history, m2m_history,
                   procvars>>

\* the rest of that save: post_save is sent with the instance as it is in memory
save_sends_post_save(t) ==
    /\ \E e \in in_flight :
          /\ e.thread = t
          /\ LET St == send_post_save(receivers[e.instance.model], t, e.instance,
                                      e.created, FALSE, StoreState)
             IN /\ SetStore(St)
                /\ Observe("save", e.created, e.instance.skip_history_when_saving,
                           St.raised)
    /\ in_flight' = {}
    /\ UNCHANGED <<cfgvars, atomic, storage_down, regvars, db, joins, procvars>>

\* the finally clause of save_without_historical_record (lines 127-128)
flag_after_save(flag) == FALSE

\* instance.save_without_historical_record() (lines 118-129)
save_without_historical_record(t, pk, f, x, user_attr) ==
    /\ draft_tracker("Poll") # "none"
    /\ Len(history) < MaxHistory
    /\ save_base("save_without_historical_record", t,
                 PollInstance(pk, f, x, user_attr, TRUE), FALSE)
    /\ skip' = [skip EXCEPT ![pk] = flag_after_save(TRUE)]
    /\ UNCHANGED <<cfgvars, envvars, regvars>>

\* save_without_historical_record has set the flag (line 124) and called
\* self.save(): the application's code that a save runs (an overridden save(), a
\* pre_save receiver) is at work on the flagged instance
skip_history_when_saving_set(pk) ==
    /\ draft_tracker("Poll") # "none"
    /\ ~skip[pk]
    /\ skip' = [skip EXCEPT ![pk] = TRUE]
    /\ Observe("skip_history_when_saving_set", FALSE, TRUE, "none")
    /\ UNCHANGED <<cfgvars, envvars, regvars, dbvars, request, now, unit>>

\* the rest of that call (lines 125-129): the instance is persisted, post_save is
\* sent, and the finally clause deletes the flag
save_without_historical_record_returns(t, pk, f, x, user_attr) ==
    /\ skip[pk]
    /\ Len(history) < MaxHistory
    /\ save_base("save_without_historical_record", t,
                 PollInstance(pk, f, x, user_attr, TRUE), FALSE)
    /\ skip' = [skip EXCEPT ![pk] = flag_after_save(TRUE)]
    /\ UNCHANGED <<cfgvars, envvars, regvars>>

\* a fixture load: Model.save_base(raw=True) by the deserializer
loaddata(t, pk, f, x, flag) ==
    /\ "Poll" \in created_classes
    /\ Len(history) < MaxHistory
    /\ save_base("loaddata", t, PollInstance(pk, f, x, Unset, flag), TRUE)
    /\ UNCHANGED <<cfgvars, envvars, regvars, skip>>

\* instance.delete(): DELETE, then post_delete with the instance as it is in
\* memory; the Collector makes both inside one transaction.atomic(), so that an
\* exception of the hook undoes the DELETE
delete(t, pk, f, x, user_attr) ==
    /\ "Poll" \in created_classes
    /\ Len(history) < MaxHistory
    /\ \E r \in db : r.id = pk
    /\ LET instance == PollInstance(pk, f, x, user_attr, skip[pk])
           St == send_post_delete(receivers["Poll"], t, instance, StoreState)
       IN /\ db' = IF St.raised = "none" THEN {r \in db : r.id # pk} ELSE db
          /\ SetStore(IF St.raised = "none" THEN St ELSE StoreState)
          /\ Observe("delete", FALSE, skip[pk], St.raised)
    /\ UNCHANGED <<cfgvars, envvars, regvars, joins, procvars>>

\* instance.save_as_draft() (lines 134-137)
save_as_draft(t, pk, f, x, user_attr) ==
    /\ draft_tracker("Poll") # "none"
    /\ Len(history) < MaxHistory
    /\ LET instance == PollInstance(pk, f, x, user_attr, skip[pk])
           St == create_historical_record(draft_tracker("Poll"), t, instance, "#",
                                          StoreState)
       IN /\ SetStore(St)
          /\ Observe("save_as_draft", FALSE, skip[pk], St.raised)
    /\ UNCHANGED <<cfgvars, envvars, regvars, db, joins, procvars>>

\* save_as_draft() of an instance built in memory and never saved: its primary
\* key, an AutoField, is still None
save_as_draft_unsaved(t, f, x) ==
    /\ draft_tracker("Poll") # "none"
    /\ Len(history) < MaxHistory
    /\ LET instance == PollInstance(NoPk, f, x, Unset, FALSE)
           St == create_historical_record(draft_tracker("Poll"), t, instance, "#",
                                          StoreState)
       IN /\ SetStore(St)
          /\ Observe("save_as_draft", FALSE, FALSE, St.raised)
    /\ UNCHANGED <<cfgvars, envvars, regvars, db, joins, procvars>>

\* another writer changes a stored row without the model's save: QuerySet.update
queryset_update(pk, f, x) ==
    /\ \E r \in db : r.id = pk /\ (r.f # f \/ r.x # x)
    /\ db' = {r \in db : r.id # pk} \cup {[id |-> pk, f |-> f, x |-> x]}
    /\ Observe("queryset_update", FALSE, FALSE, "none")
    /\ UNCHANGED <<cfgvars, envvars, regvars, joins, history, m2m_history, procvars>>

\* the accessor `instance` of the i-th history row is read
read_instance(i) ==
    /\ i \in 1..Len(history)
    /\ Observe("get_instance", FALSE, FALSE, get_instance(history[i]).raised)
    /\ UNCHANGED <<cfgvars, envvars, regvars, dbvars, procvars>>

\* the storage of the history tables fails, or works again
storage_changes ==
    /\ storage_down' = ~storage_down
    /\ Observe("storage_changes", FALSE, FALSE, "none")
    /\ UNCHANGED <<cfgvars, atomic, in_flight, regvars, dbvars, procvars>>

\* time passes
tick ==
    /\ now < MaxClock
    /\ now' = now + 1
    /\ Observe("tick", FALSE, FALSE, "none")
    /\ UNCHANGED <<cfgvars, envvars, regvars, dbvars, request, skip, unit>>

\* ------------------------------------------------------------ relationships
\* the ForeignKey descriptors found in sender.__dict__, with the model each
\* points to (lines 92-98)
foreign_keys(sender) ==
    IF sender = "PollPlace" THEN [poll |-> "Poll", place |-> "Place"]
    ELSE [n \in {} |-> ""]

\* target_field_name after the scan (lines 99-100)
target_field_name(sender, model) ==
    LET found == {n \in DOMAIN foreign_keys(sender) : foreign_keys(sender)[n] = model}
    IN IF found = {} THEN "None" ELSE CHOOSE n \in found : TRUE

\* source_field_name after the scan (lines 101-102)
source_field_name(sender, instance, model) ==
    LET found == {n \in DOMAIN foreign_keys(sender) :
                     /\ foreign_keys(sender)[n] # model
                     /\ foreign_keys(sender)[n] = instance.model}
    IN IF found = {} THEN "None" ELSE CHOOSE n \in found : TRUE

\* kwargs['pk_set']: None, or a set of primary keys
NoPkSet == [given |-> FALSE, keys |-> {}]
PkSet(keys) == [given |-> TRUE, keys |-> keys]

\* m2m_changed without the restriction to pk_set
pk_set_ignored(pk_set) == FALSE

\* `if kwargs['pk_set']:` (line 105)
pk_set_truthy(pk_set) == pk_set.given /\ pk_set.keys # {}

\* the query of lines 104-106 over the join rows J
affected_items(sender, instance, model, pk_set, J) ==
    LET src == source_field_name(sender, instance, model)
        tgt == target_field_name(sender, model)
        own == {j \in J : j[src] = instance.fields.id}
    IN IF pk_set_truthy(pk_set) THEN {j \in own : j[tgt] \in pk_set.keys} ELSE own

\* the rows of a query in the order the database returns them
RECURSIVE in_order(_)
in_order(J) ==
    IF J = {} THEN << >>
    ELSE LET first == CHOOSE j \in J :
                         \A k \in J : j.poll < k.poll \/ (j.poll = k.poll /\ j.place <= k.place)
         IN <<first>> \o in_order(J \ {first})

\* the loop of m2m_changed with each row written on the complementary notification
RECURSIVE m2m_loop_swapped(_, _, _, _, _)
m2m_loop_swapped(h, t, action, items, St) ==
    IF items = << >> \/ St.raised # "none" THEN St
    ELSE LET item == PollPlaceInstance(Head(items))
         IN IF action = "pre_add"
            THEN m2m_loop_swapped(h, t, action, Tail(items),
                                  create_historical_record(h, t, item, "+", St))
            ELSE IF action \in {"post_remove", "post_clear"}
            THEN m2m_loop_swapped(h, t, action, Tail(items),
                                  create_historical_record(h, t, item, "-", St))
            ELSE m2m_loop_swapped(h, t, action, Tail(items), St)

\* the loop of m2m_changed (lines 107-115)
RECURSIVE m2m_loop(_, _, _, _, _)
m2m_loop(h, t, action, items, St) ==
    IF items = << >> \/ St.raised # "none" THEN St
    ELSE LET item == PollPlaceInstance(Head(items))
         IN IF action = "post_add"
            THEN IF item.skip_history_when_saving THEN St
                 ELSE m2m_loop(h, t, action, Tail(items),
                               create_historical_record(h, t, item, "+", St))
            ELSE IF action = "pre_remove"
            THEN m2m_loop(h, t, action, Tail(items),
                          create_historical_record(h, t, item, "-", St))
            ELSE IF action = "pre_clear"
            THEN m2m_loop(h, t, action, Tail(items),
                          create_historical_record(h, t, item, "-", St))
            ELSE m2m_loop(h, t, action, Tail(items), St)

\* m2m_changed (lines 90-115)
m2m_changed(h, t, action, instance, sender, model, pk_set, J, St) ==
    IF source_field_name(sender, instance, model) = "None" THEN [St EXCEPT !.raised = "TypeError"]
    ELSE IF pk_set_truthy(pk_set) /\ target_field_name(sender, model) = "None"
    THEN [St EXCEPT !.raised = "TypeError"]
    ELSE m2m_loop(h, t, action,
                  in_order(affected_items(sender, instance, model, pk_set, J)), St)

\* Signal.send of m2m_changed to the receivers connected for the join model
RECURSIVE send_m2m_changed(_, _, _, _, _, _, _, _, _)
send_m2m_changed(hs, t, action, instance, sender, model, pk_set, J, St) ==
    IF hs = << >> \/ St.raised # "none" THEN St
    ELSE send_m2m_changed(Tail(hs), t, action, instance, sender, model, pk_set, J,
            m2m_changed(Head(hs), t, action, instance, sender, model, pk_set, J, St))

\* the join rows of a Poll instance
links(pk, J) == {j \in J : j.poll = pk}

\* the related manager's change of the join table, between the two signals; an
\* exception of the first signal leaves the table as it was
m2m_operation(op, t, pk, keys, pre, post, pk_set, J2) ==
    LET instance == PollInstance(pk, 0, 0, Unset, skip[pk])
    IN /\ "PollPlace" \in created_classes
       /\ \E St1 \in {send_m2m_changed(receivers["PollPlace"], t, pre, instance,
                                        "PollPlace", "Place", pk_set, joins, StoreState)} :
          \E St2 \in {send_m2m_changed(receivers["PollPlace"], t, post, instance,
                                        "PollPlace", "Place", pk_set, J2, St1)} :
             /\ Len(St2.m2m_history) < MaxHistory
             /\ joins' = IF St1.raised = "none" THEN J2 ELSE joins
             /\ SetStore(St2)
             /\ Observe(op, FALSE, skip[pk], St2.raised)
             /\ UNCHANGED <<cfgvars, envvars, regvars, db, procvars>>

\* poll.places.add(*objs): the keys not linked yet are inserted, and both signals
\* carry them as pk_set
add(t, pk, keys) ==
    LET new_ids == keys \ {j.place : j \in links(pk, joins)}
    IN /\ keys # {}
       /\ m2m_operation("add", t, pk, keys, "pre_add", "post_add", PkSet(new_ids),
                        joins \cup {[poll |-> pk, place |-> q] : q \in new_ids})

\* poll.places.remove(*objs): both signals carry the keys given
remove(t, pk, keys) ==
    /\ keys # {}
    /\ m2m_operation("remove", t, pk, keys, "pre_remove", "post_remove", PkSet(keys),
                     {j \in joins : ~(j.poll = pk /\ j.place \in keys)})

\* poll.places.clear(): both signals carry pk_set=None
clear(t, pk) ==
    m2m_operation("clear", t, pk, {}, "pre_clear", "post_clear", NoPkSet,
                  joins \ links(pk, joins))

\* a fixture load of one row of the join model: save_base(raw=True)
loaddata_join(t, pk, q) ==
    LET j == [poll |-> pk, place |-> q]
        St == send_post_save(receivers["PollPlace"], t, PollPlaceInstance(j),
                             j \notin joins, TRUE, StoreState)
    IN /\ "PollPlace" \in created_classes
       /\ j \notin joins
       /\ joins' = joins \cup {j}
       /\ SetStore(St)
       /\ Observe("loaddata_join", TRUE, FALSE, St.raised)
       /\ UNCHANGED <<cfgvars, envvars, regvars, db, procvars>>

\* --------------------------------------------------------------- middleware
\* the request middleware binds the request of the unit of work that begins on
\* thread t; a request is modelled by its user
process_request(t, user) ==
    /\ unit[t] = NoRequest
    /\ request' = [request EXCEPT ![t] = user]
    /\ unit' = [unit EXCEPT ![t] = user]
    /\ Observe("process_request", FALSE, FALSE, "none")
    /\ UNCHANGED <<cfgvars, envvars, regvars, dbvars, skip, now>>

\* and clears the binding when the unit of work ends
process_response(t) ==
    /\ unit[t] # NoRequest
    /\ request' = [request EXCEPT ![t] = NoRequest]
    /\ unit' = [unit EXCEPT ![t] = NoRequest]
    /\ Observe("process_response", FALSE, FALSE, "none")
    /\ UNCHANGED <<cfgvars, envvars, regvars, dbvars, skip, now>>

\* ----------------------------------------------------------- specifications
RegIs(R) ==
    /\ created_classes = R.created_classes
    /\ connected = R.connected
    /\ extra_methods = R.extra_methods
    /\ manager_attr = R.manager_attr
    /\ class_attr = R.class_attr
    /\ history_models = R.history_models
    /\ receivers = R.receivers
    /\ pending_registration = R.pending_registration
    /\ registered_models = R.registered_models

\* no row stored, no request bound, no operation made yet
Fresh ==
    /\ db = {}
    /\ joins = {}
    /\ history = << >>
    /\ m2m_history = << >>
    /\ request = [t \in Threads |-> NoRequest]
    /\ skip = [pk \in Pks |-> FALSE]
    /\ now = 0
    /\ unit = [t \in Threads |-> NoRequest]
    /\ storage_down = FALSE
    /\ in_flight = {}
    /\ last = Op("init", FALSE, FALSE, "none")
    /\ ordinary_ops = 0

\* The models module is loaded, with one tracker on Poll that is not inherited.
Booted ==
    /\ atomic = FALSE
    /\ inherit = FALSE
    /\ second_tracker = FALSE
    /\ place_tracked = FALSE
    /\ RegIs(Loaded)
    /\ Fresh

\* Poll is tracked with or without an excluded field.
Init ==
    /\ excluded_fields \in {{}, {"x"}}
    /\ Booted

\* The values the drivers give the fields.  Instance 1 takes every value of f; x,
\* when it is not excluded, is one more included field beside f and is kept at one
\* value.  Instance 2 is a bystander with one value per field, on which only
\* ordinary saves and deletes are made.
FVals(pk) == IF pk = 1 THEN Vals ELSE {0}
XVals(pk) == IF pk = 1 /\ excluded_fields # {} THEN Vals ELSE {0}

\* creates, updates and deletes of Poll instances by one thread, with no user bound
Next ==
    \/ \E pk \in Pks, f \in Vals, x \in Vals :
           f \in FVals(pk) /\ x \in XVals(pk) /\ save("t1", pk, f, x, Unset)
    \/ \E f \in Vals, x \in Vals :
           x \in XVals(1) /\ save_without_historical_record("t1", 1, f, x, Unset)
    \/ \E f \in Vals, x \in Vals, flag \in BOOLEAN :
           x \in XVals(1) /\ loaddata("t1", 1, f, x, flag)
    \/ \E pk \in Pks, f \in Vals, x \in Vals :
           f \in FVals(pk) /\ x \in XVals(pk) /\ delete("t1", pk, f, x, Unset)
    \/ \E f \in Vals, x \in Vals : x \in XVals(1) /\ save_as_draft("t1", 1, f, x, Unset)
    \/ \E f \in Vals : save_as_draft_unsaved("t1", f, 0)
    \/ \E f \in Vals, x \in Vals : x \in XVals(1) /\ queryset_update(1, f, x)
    \/ \E i \in 1..Len(history) : read_instance(i)

Spec == Init /\ [][Next]_vars

\* Units of work on two threads: the middleware binds and clears requests, and one
\* Poll instance is saved and deleted with and without the _history_user override.
InitUser ==
    /\ excluded_fields = {}
    /\ Booted

NextUser ==
    \/ \E t \in Threads, user \in Users \cup {"anonymous"} : process_request(t, user)
    \/ \E t \in Threads : process_response(t)
    \/ \E t \in Threads, ua \in {Unset, Null} \cup Users : save(t, 1, 0, 0, ua)
    \/ \E t \in Threads, ua \in {Unset, Null} \cup Users : delete(t, 1, 0, 0, ua)

SpecUser == InitUser /\ [][NextUser]_vars

\* Changes of the relationship Poll.places by one thread.  Poll 1 is linked to any
\* of the places; Poll 2 is a bystander that is linked to place 2 or not.
InitM2M ==
    /\ excluded_fields = {}
    /\ Booted

PlacesOf(pk) == IF pk = 1 THEN Targets ELSE {2}

NextM2M ==
    \/ \E pk \in Pks, keys \in SUBSET Targets :
           keys \subseteq PlacesOf(pk) /\ add("t1", pk, keys)
    \/ \E pk \in Pks, keys \in SUBSET Targets :
           keys \subseteq PlacesOf(pk) /\ remove("t1", pk, keys)
    \/ \E pk \in Pks : clear("t1", pk)
    \/ \E pk \in Pks, q \in Targets : q \in PlacesOf(pk) /\ loaddata_join("t1", pk, q)

SpecM2M == InitM2M /\ [][NextM2M]_vars

\* Every kind of operation on one Poll instance and its links to two places.
InitAll ==
    /\ excluded_fields = {"x"}
    /\ Booted

NextAll ==
    \/ \E f \in Vals : save("t1", 1, f, 0, Unset)
    \/ save_without_historical_record("t1", 1, 1, 0, Unset)
    \/ save_as_draft("t1", 1, 1, 0, Unset)
    \/ delete("t1", 1, 0, 0, Unset)
    \/ \E keys \in SUBSET {1, 2} : add("t1", 1, keys)
    \/ \E keys \in SUBSET {1, 2} : remove("t1", 1, keys)
    \/ clear("t1", 1)

SpecAll == InitAll /\ [][NextAll]_vars

\* The relationship of a Poll instance is changed by the code that its save runs
\* during save_without_historical_record, and outside of such a call.
InitSkip ==
    /\ excluded_fields = {}
    /\ Booted

NextSkip ==
    \/ skip_history_when_saving_set(1)
    \/ \E f \in Vals : save_without_historical_record_returns("t1", 1, f, 0, Unset)
    \/ \E keys \in SUBSET {1, 2} : add("t1", 1, keys)
    \/ \E keys \in SUBSET {1, 2} : remove("t1", 1, keys)
    \/ clear("t1", 1)

SpecSkip == InitSkip /\ [][NextSkip]_vars

\* Saves and deletes of one Poll instance while the storage of its history table
\* fails at times, by a caller that runs them in a transaction or does not.
InitFail ==
    /\ excluded_fields = {}
    /\ atomic \in BOOLEAN
    /\ inherit = FALSE
    /\ second_tracker = FALSE
    /\ place_tracked = FALSE
    /\ RegIs(Loaded)
    /\ Fresh

NextFail ==
    \/ \E f \in Vals : save("t1", 1, f, 0, Unset)
    \/ delete("t1", 1, 0, 0, Unset)
    \/ storage_changes

SpecFail == InitFail /\ [][NextFail]_vars

\* save_without_historical_record on one Poll instance, and ordinary updates of it,
\* while the storage of its history table fails at times.
NextFlag ==
    \/ \E f \in Vals : save_without_historical_record("t1", 1, f, 0, Unset)
    \/ \E f \in Vals : persisted_poll(1) /\ save("t1", 1, f, 0, Unset)
    \/ storage_changes

SpecFlag == InitFail /\ [][NextFlag]_vars

\* Saves and deletes of two Poll instances while time passes, or does not.
NextOrder ==
    \/ \E pk \in Pks, f \in Vals : f \in FVals(pk) /\ save("t1", pk, f, 0, Unset)
    \/ \E pk \in Pks : delete("t1", pk, 0, 0, Unset)
    \/ tick

SpecOrder == InitM2M /\ [][NextOrder]_vars

\* Saves and deletes of one Poll instance while another writer changes its stored
\* row, also between the save's write and its post_save.
NextRace ==
    \/ \E f \in Vals : save_persists("t1", 1, f, 0)
    \/ save_sends_post_save("t1")
    \/ \E f \in Vals : queryset_update(1, f, 0)
    \/ \E f \in Vals : in_flight = {} /\ delete("t1", 1, f, 0, Unset)

SpecRace == InitM2M /\ [][NextRace]_vars

\* The models module is being loaded: the class statements run in some order, the
\* application may call register, and one Poll instance is saved and deleted.
InitReg ==
    /\ inherit \in BOOLEAN
    /\ second_tracker \in BOOLEAN
    /\ place_tracked \in BOOLEAN
    /\ excluded_fields = {}
    /\ atomic = FALSE
    /\ RegIs(EmptyReg)
    /\ Fresh

NextReg ==
    \/ \E S \in Types : create_class(S)
    \/ \E S \in {"Poll", "PollPlace"} : register_call(S)
    \/ save("t1", 1, 0, 0, Unset)
    \/ delete("t1", 1, 0, 0, Unset)
    \/ add("t1", 1, {1})

SpecReg == InitReg /\ [][NextReg]_vars

\* ------------------------------------------------------------------- claims
UserAttrs == {Unset, Null} \cup Users

\* table H2 is table H with exactly one more row, of the given type, for Poll pk
AppendsOne(H, H2, pk, history_type) ==
    /\ Len(H2) = Len(H) + 1
    /\ SubSeq(H2, 1, Len(H)) = H
    /\ H2[Len(H2)].history_type = history_type
    /\ H2[Len(H2)].attrs.id = pk

persisted(pk) == \E r \in db : r.id = pk

\* C1, first part: every ordinary save() of a Poll instance appends exactly one row
\* to its history, tagged '+' when the save inserted and '~' when it updated, and
\* every ordinary delete() appends exactly one row tagged '-'.
C1_OneRowPerOperation ==
    last'.op \in {"save", "delete"} =>
        \A pk \in Pks, f \in Vals, x \in Vals :
            /\ (last'.op = "save" /\ ~skip[pk] /\ save("t1", pk, f, x, Unset))
                  => AppendsOne(history, history', pk, IF persisted(pk) THEN "~" ELSE "+")
            /\ (last'.op = "delete" /\ ~skip[pk] /\ delete("t1", pk, f, x, Unset))
                  => AppendsOne(history, history', pk, "-")

\* C1: each ordinary create, update and delete appends exactly one history row with
\* its tag, and after a sequence of such operations the history holds as many rows
\* as operations were made.
C1_RowPerOrdinaryOperation ==
    /\ [][C1_OneRowPerOperation]_vars
    /\ [](ordinary_ops # -1 => Len(history) = ordinary_ops)

\* a create, an update and a delete were made, and the history holds their three rows
C1_Witness ==
    /\ ordinary_ops = 3
    /\ last.op = "delete"
    /\ Len(history) = 3
    /\ history[1].history_type = "+"
    /\ history[2].history_type = "~"
    /\ history[3].history_type = "-"

C7_ExcludedFieldsLive ==
    \A i \in 1..Len(history) :
        LET row == history[i]
            live == {r \in db : r.id = row.attrs.id}
        IN /\ DOMAIN row.attrs = Range(ModelFields) \ excluded_fields
           /\ \A r \in live :
                /\ get_instance(row).raised = "none"
                /\ DOMAIN get_instance(row).fields = Range(ModelFields)
                /\ \A fld \in Range(ModelFields) :
                      get_instance(row).fields[fld] =
                          IF fld \in excluded_fields THEN r[fld] ELSE row.attrs[fld]

\* an old and a new row of one instance, differing in f, and the instance rebuilt
\* from one of them while x is excluded and the live row holds x = 1
C7_Witness ==
    /\ excluded_fields = {"x"}
    /\ last.op = "get_instance"
    /\ last.raised = "none"
    /\ Len(history) = 2
    /\ history[1].attrs.id = 1
    /\ history[2].attrs.id = 1
    /\ history[1].attrs.f # history[2].attrs.f
    /\ \E r \in db : r.id = 1 /\ r.x = 1

\* C8: a raw save, whether it inserts or updates and whether or not the instance
\* carries the skip flag, leaves every history table as it was.
C8_RawWritesNothing ==
    [][last'.op = "loaddata" =>
         \A t \in Threads, pk \in Pks, f \in Vals, x \in Vals, flag \in BOOLEAN :
            loaddata(t, pk, f, x, flag)
               => (history' = history /\ m2m_history' = m2m_history)]_vars

\* a raw save inserted an instance and the history is still empty
C8_Witness ==
    /\ last.op = "loaddata"
    /\ last.created
    /\ persisted(1)
    /\ history = << >>

IsPrefix(H, H2) == Len(H) <= Len(H2) /\ SubSeq(H2, 1, Len(H)) = H

\* C2: the history is append-only: every step of every operation keeps the rows
\* each history table held, unchanged and in place, and at most adds rows after them.
C2_AppendOnly ==
    [][IsPrefix(history, history') /\ IsPrefix(m2m_history, m2m_history')]_vars

\* both history tables hold several rows, written by different operations
C2_Witness ==
    /\ Len(history) = 3
    /\ history[1].history_type = "+"
    /\ history[2].history_type = "#"
    /\ history[3].history_type = "-"
    /\ Len(m2m_history) = 2
    /\ m2m_history[2].history_type = "-"
    /\ last.op = "clear"

\* what get_history_user is to return for an instance saved by thread t
ActingUser(t, ua) ==
    IF ua # Unset THEN ua
    ELSE IF request[t] \in Users THEN request[t] ELSE Null

\* C4: a row's acting user is the instance's _history_user whenever that attribute
\* is set, else the user of the request bound to the saving thread if one is bound
\* and its user is authenticated, else null; and the save or delete never raises,
\* whatever is bound.
C4_ActingUser ==
    [][last'.op \in {"save", "delete"} =>
         /\ last'.raised = "none"
         /\ \A t \in Threads, ua \in UserAttrs :
               (save(t, 1, 0, 0, ua) \/ delete(t, 1, 0, 0, ua))
                  => /\ Len(history') = Len(history) + 1
                     /\ history'[Len(history')].history_user = ActingUser(t, ua)]_vars

\* the instance was created while u1 was bound and updated with nothing bound and
\* no override
C4_Witness ==
    /\ Len(history) = 2
    /\ history[1].history_type = "+"
    /\ history[1].history_user = "u1"
    /\ history[2].history_type = "~"
    /\ history[2].history_user = Null
    /\ last.op = "save"
    /\ \A t \in Threads : request[t] = NoRequest

\* C5: a row written on thread t by an instance without override records the user
\* bound by the unit of work in progress on t, or null if that unit bound none or
\* an unauthenticated user; never the user of another unit of work.
C5_NoLeak ==
    [][last'.op \in {"save", "delete"} =>
         \A t \in Threads :
            (save(t, 1, 0, 0, Unset) \/ delete(t, 1, 0, 0, Unset))
               => /\ Len(history') = Len(history) + 1
                  /\ history'[Len(history')].history_user =
                        IF unit[t] \in Users THEN unit[t] ELSE Null]_vars

\* two units of work in progress at once, each having written a row with its own
\* user, and then a row written on a thread whose unit of work has ended
C5_Witness ==
    /\ unit["t1"] = "u1"
    /\ unit["t2"] = NoRequest
    /\ Len(history) = 3
    /\ history[1].history_user = "u1"
    /\ history[2].history_user = "u2"
    /\ history[3].history_user = Null
    /\ last.op = "save"

\* the attributes of a class that hold a HistoryDescriptor
accessors(S) == {a \in DOMAIN class_attr[S] : class_attr[S][a] = "HistoryDescriptor"}

\* C6, in every state: no type has more than one history model, one set of hooks or
\* one accessor, and a type has them exactly if it carries the manager attribute.
C6_AtMostOnce ==
    \A S \in Types :
        /\ Len(history_models[S]) <= 1
        /\ Len(receivers[S]) <= 1
        /\ Cardinality(accessors(S)) <= 1
        /\ manager_attr[S] # "" <=> Len(receivers[S]) = 1

\* C6, in every step: registering a type that carries the manager attribute raises
\* MultipleRegistrationsError and installs nothing; two trackers declared on one
\* class raise it when the class is prepared; a step that raises it leaves the
\* history model, the hooks and the manager attribute of every registered type as
\* they were; and every save or delete appends at most one history row.
C6_SecondRegistrationFails ==
    /\ \A S \in Types :
          (last'.op = "register" /\ register_call(S) /\ manager_attr[S] # "")
             => /\ last'.raised = "MultipleRegistrationsError"
                /\ history_models' = history_models
                /\ receivers' = receivers
                /\ \A T \in Types : accessors(T)' \subseteq accessors(T)
                /\ manager_attr' = manager_attr
    /\ (last'.op = "create_class" /\ second_tracker
           /\ "Poll" \in created_classes' \ created_classes)
          => last'.raised = "MultipleRegistrationsError"
    /\ last'.raised = "MultipleRegistrationsError"
          => \A S \in Types :
                manager_attr[S] # ""
                   => /\ history_models'[S] = history_models[S]
                      /\ receivers'[S] = receivers[S]
                      /\ manager_attr'[S] = manager_attr[S]
    /\ last'.op \in {"save", "delete"} => Len(history') <= Len(history) + 1

\* C6: a tracked type is registered for history at most once; a second registration
\* raises MultipleRegistrationsError when it is made and installs nothing.
C6_RegisteredOnce == []C6_AtMostOnce /\ [][C6_SecondRegistrationFails]_vars

\* a second registration of Poll has failed, by a second tracker on the class and
\* by a call of register, and the save and the delete made since wrote one row each
C6_Witness ==
    /\ second_tracker
    /\ last.op = "delete"
    /\ extra_methods["Poll"] = "registered"
    /\ receivers["Poll"] = <<"history">>
    /\ Len(history) = 2
    /\ history[1].history_type = "+"
    /\ history[2].history_type = "-"

\* table H2 is table H with one more row of the given type for each join row of J,
\* and no other row
RecordsExactly(H, H2, J, history_type) ==
    /\ Len(H2) = Len(H) + Cardinality(J)
    /\ SubSeq(H2, 1, Len(H)) = H
    /\ \A j \in J : \E i \in (Len(H) + 1)..Len(H2) :
          H2[i].attrs = j /\ H2[i].history_type = history_type

\* C9: adding targets to the places of a Poll instance appends to the join history
\* exactly one row tagged '+' for each join row the add inserted, that is, one for
\* each added target that was not linked before, and no other row.
C9_AddRecordsNewLinks ==
    [][last'.op = "add" =>
         \A pk \in Pks, keys \in SUBSET Targets :
            add("t1", pk, keys)
               => RecordsExactly(m2m_history, m2m_history',
                     {[poll |-> pk, place |-> q] :
                         q \in keys \ {j.place : j \in links(pk, joins)}}, "+")]_vars

\* C10: a remove of a set of target keys appends exactly one row tagged '-' for each
\* join row of the instance whose target is in the set; a clear appends exactly one
\* for each join row of the instance; no join row of another instance is recorded.
C10_RemoveRecordsAffectedLinks ==
    [][last'.op \in {"remove", "clear"} =>
         \A pk \in Pks :
            /\ \A keys \in SUBSET Targets :
                  remove("t1", pk, keys)
                     => RecordsExactly(m2m_history, m2m_history',
                           {j \in joins : j.poll = pk /\ j.place \in keys}, "-")
            /\ clear("t1", pk)
                  => RecordsExactly(m2m_history, m2m_history', links(pk, joins), "-")]_vars

\* Poll 1 was linked to places 1, 2 and 3 and place 2 was removed: one '-' row, for
\* place 2, while Poll 2 keeps its link to place 2 unrecorded
C10_Witness ==
    /\ last.op = "remove"
    /\ joins = {[poll |-> 1, place |-> 1], [poll |-> 1, place |-> 3],
                [poll |-> 2, place |-> 2]}
    /\ Len(m2m_history) = 1
    /\ m2m_history[1].history_type = "-"
    /\ m2m_history[1].attrs = [poll |-> 1, place |-> 2]

\* C11: a relationship add made while the owner of the join rows, the Poll instance
\* whose places are changed, carries skip_history_when_saving writes no join-history
\* row; a remove or clear writes one '-' row for every join row it removes, whether
\* or not the owner carries the flag.
C11_OwnerFlagSuppressesAdd ==
    [][/\ (last'.op = "add" /\ last'.flag) => m2m_history' = m2m_history
       /\ last'.op \in {"remove", "clear"}
             => RecordsExactly(m2m_history, m2m_history', joins \ joins', "-")]_vars

\* the classes whose relationship "places" a tracker records: Poll, and its
\* subclasses when the tracker is inherited
referencing == IF inherit THEN {"Poll", "SubPoll", "SubPoll2"} ELSE {"Poll"}

\* C12: once the join model PollPlace and every tracked class that names it in
\* m2m_fields have been finalized, pending_registration holds no entry for
\* PollPlace, and PollPlace has one history model and one set of hooks.
C12_PendingResolved ==
    (referencing \cup {"PollPlace"}) \subseteq created_classes
       => /\ "PollPlace" \notin Range(pending_registration)
          /\ Len(history_models["PollPlace"]) = 1
          /\ Len(receivers["PollPlace"]) = 1

\* C13: a save or delete whose history row cannot be written raises the storage's
\* exception to its caller, and a save or delete that raises leaves the stored Poll
\* rows and the history as they were: the mutation is never persisted without its
\* row.
C13_AllOrNothing ==
    [][last'.op \in {"save", "delete"} =>
         /\ storage_down => last'.raised = "DatabaseError"
         /\ last'.raised # "none" => (db' = db /\ history' = history)]_vars

\* C19: outside of a save_without_historical_record call no instance carries the
\* flag, whether the call returned or its save raised; and so every ordinary update
\* of a stored instance, the storage working, appends one row tagged '~'.
C19_FlagScopedToCall ==
    /\ [](\A pk \in Pks : ~skip[pk])
    /\ [][(last'.op = "save" /\ persisted(1) /\ ~storage_down)
             => \A f \in Vals : save("t1", 1, f, 0, Unset)
                   => AppendsOne(history, history', 1, "~")]_vars

\* the instance was inserted by a save_without_historical_record that raised, the
\* storage failing, so that it has no '+' row; the update made since has its row
C19_Witness ==
    /\ last.op = "save"
    /\ ~atomic
    /\ Len(history) = 1
    /\ history[1].history_type = "~"
    /\ persisted(1)

\* C14: the instance of a history row whose tracker excludes no field is rebuilt
\* from the row alone, whether or not the live row exists; the instance of a row
\* whose tracker excludes a field, the live row of its primary key being deleted,
\* is not rebuilt: the query's DoesNotExist reaches the caller.
C14_ReconstructionAfterDelete ==
    /\ \A i \in 1..Len(history) :
          LET row == history[i]
          IN /\ excluded(row.tracker) = {}
                   => get_instance(row) = [raised |-> "none", fields |-> row.attrs]
             /\ (excluded(row.tracker) # {} /\ ~persisted(row.attrs.id))
                   => get_instance(row).raised = "DoesNotExist"
    /\ (last.op = "get_instance" /\ history # << >>
           /\ \A i \in 1..Len(history) : ~persisted(history[i].attrs.id))
          => last.raised = IF excluded_fields = {} THEN "none" ELSE "DoesNotExist"

\* the instance of the '-' row of a deleted Poll was asked for while x is excluded
C14_Witness ==
    /\ excluded_fields = {"x"}
    /\ last.op = "get_instance"
    /\ last.raised = "DoesNotExist"
    /\ Len(history) = 2
    /\ history[2].history_type = "-"
    /\ db = {}

\* C15: save_as_draft, on a stored instance and on one never saved, appends exactly
\* one history row, tagged '#', that holds the instance's in-memory values of the
\* included fields, and leaves the stored Poll rows as they were.
C15_DraftRow ==
    [][last'.op = "save_as_draft" =>
         /\ db' = db
         /\ last'.raised = "none"
         /\ Len(history') = Len(history) + 1
         /\ IsPrefix(history, history')
         /\ history'[Len(history')].history_type = "#"
         /\ \A f \in Vals, x \in Vals :
               (save_as_draft("t1", 1, f, x, Unset) \/ save_as_draft_unsaved("t1", f, x))
                  => /\ history'[Len(history')].attrs.f = f
                     /\ "x" \notin excluded_fields => history'[Len(history')].attrs.x = x]_vars

\* the rows that one tracker has written for the Poll instance pk
rows_of(h, pk) == {history[i] : i \in {j \in 1..Len(history) :
                        history[j].tracker = h /\ history[j].attrs.id = pk}}

\* C16: on the history rows of one Poll instance the retrieval order is a strict
\* total order: no row precedes itself, of two different rows exactly one precedes
\* the other, and a row that precedes a second one that precedes a third precedes
\* the third; no two rows of one history table have the same history_id.
C16_StrictTotalOrder ==
    /\ \A i, j \in 1..Len(history) :
          (i # j /\ history[i].tracker = history[j].tracker)
             => history[i].history_id # history[j].history_id
    /\ \A h \in Trackers, pk \in Pks :
          \A a, b \in rows_of(h, pk) :
             /\ ~precedes(a, a)
             /\ a # b => (precedes(a, b) /\ ~precedes(b, a))
                            \/ (precedes(b, a) /\ ~precedes(a, b))
             /\ \A c \in rows_of(h, pk) : (precedes(a, b) /\ precedes(b, c)) => precedes(a, c)

\* three rows of one instance, two of them written at the same time
C16_Witness ==
    /\ Cardinality(rows_of("history", 1)) = 3
    /\ history[1].history_date = history[2].history_date
    /\ history[3].history_date > history[2].history_date

\* C17: the row that post_save writes holds, in every included field, the value the
\* saved instance holds in memory, whatever the stored row holds when the hook
\* runs; and the row that post_delete writes holds the values of the deleted
\* instance.
C17_InMemoryValues ==
    [][/\ last'.op = "save" =>
            \A e \in in_flight :
               /\ Len(history') = Len(history) + 1
               /\ history'[Len(history')].attrs =
                     [fld \in Range(ModelFields) \ excluded_fields |-> e.instance.fields[fld]]
       /\ last'.op = "delete" =>
            \A f \in Vals :
               delete("t1", 1, f, 0, Unset)
                  => history'[Len(history')].attrs =
                        [fld \in Range(ModelFields) \ excluded_fields |->
                            [id |-> 1, f |-> f, x |-> 0][fld]]]_vars

\* another writer changed the stored row between the save's write and its hook:
\* the row written holds the saved instance's value, the stored row another
C17_Witness ==
    /\ last.op = "save"
    /\ in_flight = {}
    /\ Len(history) = 1
    /\ \E r \in db : r.id = 1 /\ r.f # history[1].attrs.f

\* tracker h, declared on a class, is to be applied to class S
applies_to(h, S) ==
    \/ h \in {"history", "audit"} /\ S = "Poll"
    \/ h = "history" /\ inherit /\ S \in {"SubPoll", "SubPoll2"}
    \/ h = "place_history" /\ S = "Place"

\* the class that the class statement of this step creates
created_now(S) == last'.op = "create_class" /\ S \in created_classes' \ created_classes

\* C18: a tracker declared on a class is installed on a class being finalized only
\* if that class is its own or, the tracker being inherited, a subclass of its own,
\* and then it is installed or fails with MultipleRegistrationsError; the
\* finalization of a class that no tracker is to be applied to installs none of
\* the declared trackers on it and raises no MultipleRegistrationsError, and, the
\* class not being a join model awaited in pending_registration, leaves every
\* history model, hook and accessor as it was.
C18_AppliedOnlyToOwnType ==
    [][\A S \in Types : created_now(S) =>
          /\ \A h \in {"history", "audit", "place_history"} :
                /\ h \in Range(receivers'[S]) => applies_to(h, S)
                /\ h \in Range(history_models'[S]) => applies_to(h, S)
                /\ (h \in Range(connected') /\ applies_to(h, S))
                      => \/ h \in Range(receivers'[S])
                         \/ last'.raised = "MultipleRegistrationsError"
          /\ (\A h \in {"history", "audit", "place_history"} : ~applies_to(h, S))
                => /\ last'.raised # "MultipleRegistrationsError"
                   /\ S \notin Range(pending_registration)
                         => /\ history_models' = history_models
                            /\ receivers' = receivers
                            /\ class_attr' = class_attr
                            /\ manager_attr' = manager_attr]_vars


\* the store after the first of the two notifications of a relationship change of
\* Poll pk, sent while the join table is still as the change found it
after_pre(pk, action, pk_set) ==
    send_m2m_changed(receivers["PollPlace"], "t1", action,
                     PollInstance(pk, 0, 0, Unset, skip[pk]), "PollPlace", "Place",
                     pk_set, joins, StoreState)

\* C20: a relationship change is recorded while its join rows exist.  The pre_add
\* notification writes nothing and the '+' rows of an add of new targets, one for
\* each join row inserted, are written after the insertion, on post_add; the '-'
\* rows of a remove or a clear, one for each join row about to go, are all written
\* on pre_remove or pre_clear, and post_remove and post_clear write nothing.
C20_RecordedWhileJoinRowsExist ==
    [][last'.op \in {"add", "remove", "clear"} =>
         \A pk \in Pks :
            /\ \A keys \in SUBSET Targets :
                  LET new_ids == keys \ {j.place : j \in links(pk, joins)}
                      inserted == {[poll |-> pk, place |-> q] : q \in new_ids}
                      removed == {j \in joins : j.poll = pk /\ j.place \in keys}
                  IN /\ add("t1", pk, keys)
                           => /\ after_pre(pk, "pre_add", PkSet(new_ids)) = StoreState
                              /\ new_ids # {}
                                    => /\ inserted \subseteq joins'
                                       /\ RecordsExactly(m2m_history, m2m_history',
                                                         inserted, "+")
                     /\ remove("t1", pk, keys)
                           => /\ removed \subseteq joins
                              /\ RecordsExactly(m2m_history,
                                    after_pre(pk, "pre_remove", PkSet(keys)).m2m_history,
                                    removed, "-")
                              /\ m2m_history' =
                                    after_pre(pk, "pre_remove", PkSet(keys)).m2m_history
            /\ clear("t1", pk)
                  => /\ RecordsExactly(m2m_history,
                           after_pre(pk, "pre_clear", NoPkSet).m2m_history,
                           links(pk, joins), "-")
                     /\ m2m_history' = after_pre(pk, "pre_clear", NoPkSet).m2m_history]_vars

\* Poll 1 was linked to place 1 by an add and then cleared: the '+' row was written
\* after the insertion and the '-' row before the removal, each for the join row
C20_Witness ==
    /\ last.op = "clear"
    /\ links(1, joins) = {}
    /\ Len(m2m_history) = 2
    /\ m2m_history[1].history_type = "+"
    /\ m2m_history[2].history_type = "-"
    /\ m2m_history[1].attrs = [poll |-> 1, place |-> 1]
    /\ m2m_history[2].attrs = [poll |-> 1, place |-> 1]

====
